---- MODULE Spec2Model ----
(***************************************************************************)
(* A model of parts of the uTask engine:                                   *)
(*   - pkg/notify/init: notification backend validation and registration   *)
(*   - pkg/notify:      the sender / action registries                     *)
(*   - pkg/taskutils:   CreateTask and ShouldResumeParentTask              *)
(*   - pkg/auth:        IsAdmin, IsRequester, IsResolutionManager, ...     *)
(*   - api:             the admin-only routes of the REST server           *)
(*   - pkg/plugins/builtin: registration of the builtin runners            *)
(* Each part has its own specification over the module's variables; the    *)
(* variables of the other parts keep their initial value.                  *)
(***************************************************************************)
EXTENDS Integers, Sequences, FiniteSets, TLC

VARIABLES
    \* pkg/notify/init: one call of validateAndNormalizeNotificationStrategy
    vNcfg,          \* the backend configuration handed to the function
    vOut,           \* what the call returned ("pending" before it ran)
    \* pkg/notify: the package-level registries
    senders,        \* name -> notificationBackend
    actions,        \* the registered utask.NotifyActions
    initCall,       \* the last call of notify Init: its argument and outcome
    \* pkg/auth
    adminUsers,     \* the admin usernames set by auth Init
    adminGroups,    \* the admin groups set by auth Init
    aIn,            \* the arguments of one call of IsResolutionManager
    aOut,           \* what the call returned ("pending" before it ran)
    \* api
    FMaintenanceMode,   \* utask.FMaintenanceMode
    req,            \* the last request served: its route, its caller and the response
    \* engine/step: the runner registry
    runners,        \* name -> runner
    regCall,        \* the last bootstrap call that registers runners, and its outcome
    \* the database, as pkg/taskutils reads and writes it
    tasks,          \* the task table: PublicID -> task
    comments,       \* the task_comment table, in order of creation
    resolutions,    \* the resolution table: PublicID -> resolution
    notices,        \* the tasks NotifyValidationRequired was called for, in order
    dbCalls,        \* the calls made on the database and the notifier, in order
    \* pkg/taskutils: CreateTask
    ctIn,           \* the arguments of one call of CreateTask
    ctOut,          \* what the call returned (err is "pending" before it ran)
    \* pkg/taskutils: ShouldResumeParentTask
    resume,         \* per finished-task hook: the call of ShouldResumeParentTask in
                    \* progress, with what it has read so far and what it returned
    \* pkg/notify: Send and the two list functions
    lastOp,         \* the function of package notify that made the last step, and
                    \* what it returned
    sendCall,       \* the call of Send in progress, or the last one
    gos,            \* the goroutines the last call of Send has started, in order
    \* api: ListenAndServe and the metrics collector
    srv,            \* the call of ListenAndServe: its position, the goroutine that
                    \* waits for a signal, the HTTP server and the root context
    col             \* the metrics collector: its position, its ticker and the
                    \* refreshes it has made

validateVars == <<vNcfg, vOut>>
notifyVars == <<senders, actions, initCall>>
authVars == <<adminUsers, adminGroups, aIn, aOut>>

apiVars == <<FMaintenanceMode, req>>

runnerVars == <<runners, regCall>>

dbVars == <<tasks, comments, resolutions, notices, dbCalls>>
createVars == <<ctIn, ctOut>>
resumeVars == <<resume>>
sendVars == <<lastOp, sendCall, gos>>
serveVars == <<srv, col>>

vars == <<validateVars, notifyVars, authVars, apiVars, runnerVars, dbVars, createVars, resumeVars, sendVars, serveVars>>

\* what each part leaves alone
ValidateOthers == <<notifyVars, authVars, apiVars, runnerVars, dbVars, createVars, resumeVars, sendVars, serveVars>>
NotifyOthers == <<validateVars, authVars, apiVars, runnerVars, dbVars, createVars, resumeVars, sendVars, serveVars>>
AuthOthers == <<validateVars, notifyVars, apiVars, runnerVars, dbVars, createVars, resumeVars, sendVars, serveVars>>
ApiOthers == <<validateVars, notifyVars, aIn, aOut, runnerVars, dbVars, createVars, resumeVars, sendVars, serveVars>>
RunnerOthers == <<validateVars, notifyVars, authVars, apiVars, dbVars, createVars, resumeVars, sendVars, serveVars>>
CreateOthers == <<validateVars, notifyVars, authVars, apiVars, runnerVars, resumeVars,
                  sendVars, serveVars>>
ResumeOthers == <<validateVars, notifyVars, authVars, apiVars, runnerVars, createVars,
                  sendVars, serveVars, comments, notices, dbCalls>>
SendOthers == <<validateVars, initCall, authVars, apiVars, runnerVars, dbVars, createVars,
                resumeVars, serveVars>>
ServeOthers == <<validateVars, notifyVars, authVars, apiVars, runnerVars, dbVars, createVars,
                 resumeVars, sendVars>>

\* the initial value of each part when its operations are not called
InitValidateIdle ==
    /\ vNcfg = [Type |-> "slack", Config |-> "valid",
                DefaultNotificationStrategy |-> [isNil |-> TRUE, kv |-> <<>>],
                TemplateNotificationStrategies |-> <<>>]
    /\ vOut = [ncfg |-> vNcfg, err |-> "pending"]

InitNotifyIdle ==
    /\ senders = <<>>
    /\ actions = "none"
    /\ initCall = [called |-> FALSE, cfg |-> "none", err |-> "nil", registered |-> {},
                   registerActionsCalled |-> FALSE, actions0 |-> "none"]

InitAuthIdle ==
    /\ adminUsers = {"root"}
    /\ adminGroups = {}
    /\ aIn = [ctx |-> [id |-> "", groups |-> {}], tt |-> [isNil |-> TRUE],
              t |-> [isNil |-> TRUE], r |-> [isNil |-> TRUE]]
    /\ aOut = "pending"

InitRunnerIdle ==
    /\ runners = <<>>
    /\ regCall = [op |-> "none", list |-> <<>>, runners0 |-> <<>>, attempted |-> <<>>,
                  err |-> "nil"]

InitDbIdle ==
    /\ tasks = <<>>
    /\ comments = <<>>
    /\ resolutions = <<>>
    /\ notices = <<>>
    /\ dbCalls = <<>>

InitCreateIdle ==
    /\ ctIn = "none"
    /\ ctOut = [t |-> [isNil |-> TRUE], err |-> "pending"]

InitResumeIdle ==
    resume = <<>>

InitSendIdle ==
    /\ lastOp = [op |-> "none", ret |-> "none"]
    /\ sendCall = [pc |-> "idle", m |-> "none", params |-> "none", todo |-> <<>>]
    /\ gos = <<>>

InitServeIdle ==
    /\ srv = [pc |-> "init", ret |-> "none", sig |-> FALSE, gpc |-> "none",
              http |-> "none", cancelled |-> FALSE, exited |-> FALSE, built |-> FALSE]
    /\ col = [pc |-> "none", ticker |-> "none", tick |-> FALSE, refreshes |-> 0,
              warned |-> FALSE, own |-> FALSE, done |-> FALSE]

InitApiIdle ==
    /\ FMaintenanceMode = FALSE
    /\ req = [served |-> FALSE, route |-> "none", caller |-> "none", ran |-> <<>>,
              status |-> 0, aborted |-> FALSE, admins |-> <<{}, {}>>]

-----------------------------------------------------------------------------
(* pkg/notify: action keys, and the strategies of package utask *)

TaskStateUpdateKey == "task_state_update"
TaskStepUpdateKey == "task_step_update"
TaskValidationKey == "task_validation"

NotificationStrategyAlways == "always"
NotificationStrategySilent == "silent"
NotificationStrategyFailureOnly == "failure_only"
NotificationStrategyFailureOrDone == "failure_or_done"

\* errors of validateStrategyForAction; "nil" is the nil error
errNotAllowed == "strategy not allowed"
errUnknown == "strategy unknown"

\* errors returned by validateAndNormalizeNotificationStrategy and Init
ErrDefaultAction == "invalid action in default_notification_strategy"
ErrDefaultNotAllowed == "default_notification_strategy not allowed for action"
ErrDefaultUnknown == "default_notification_strategy not a valid value"
ErrTemplateAction == "invalid action name in notification_strategy"
ErrTemplateNotAllowed == "notification_strategy not allowed for action"
ErrTemplateUnknown == "notification_strategy not a valid value"
errRetrieveCfg == "failed to retrieve cfg"
ErrInstantiate == "failed to instantiate opsgenie notification sender"
ErrBackendType == "failed to identify backend type"
ErrConfig == "utask.Config failed"

\* a Go map[string]string: nil, or a finite function
NilMap == [isNil |-> TRUE, kv |-> <<>>]
MakeMap(f) == [isNil |-> FALSE, kv |-> f]

validateActionName(action) ==
    action \in {TaskValidationKey, TaskStateUpdateKey, TaskStepUpdateKey}

validateStrategyForActionLax(action, strategy) ==
    CASE strategy \in {NotificationStrategyAlways, NotificationStrategySilent,
                       NotificationStrategyFailureOnly,
                       NotificationStrategyFailureOrDone} -> "nil"
      [] OTHER -> errUnknown

validateStrategyForAction(action, strategy) ==
    CASE strategy \in {NotificationStrategyAlways, NotificationStrategySilent} -> "nil"
      [] strategy = NotificationStrategyFailureOnly ->
            IF action = TaskValidationKey THEN errNotAllowed ELSE "nil"
      [] strategy = NotificationStrategyFailureOrDone ->
            IF action = TaskValidationKey THEN errNotAllowed ELSE "nil"
      [] OTHER -> errUnknown

\* the inner loop over one action's per-template strategies (lines 147-154):
\* the error of the first strategy, in list order, that does not validate
RECURSIVE StratsError(_, _, _)
StratsError(action, strats, i) ==
    IF i > Len(strats) THEN "nil"
    ELSE LET e == validateStrategyForAction(action, strats[i].NotificationStrategy)
         IN  IF e = errNotAllowed THEN ErrTemplateNotAllowed
             ELSE IF e = errUnknown THEN ErrTemplateUnknown
             ELSE StratsError(action, strats, i + 1)

\* one iteration of the loop over TemplateNotificationStrategies (lines 143-155)
TemplateActionError(tns, action) ==
    IF ~validateActionName(action) THEN ErrTemplateAction
    ELSE StratsError(action, tns[action], 1)

\* the loop over TemplateNotificationStrategies ranges over a Go map, whose order
\* is not specified: it returns the error of whichever failing key comes first.
\* The empty set means that the loop runs to its end.
TemplateLoopErrors(tns) ==
    { TemplateActionError(tns, a) :
        a \in { k \in DOMAIN tns : TemplateActionError(tns, k) # "nil" } }

\* the order of the loop at line 125
NormalizedActions == <<TaskValidationKey, TaskStateUpdateKey, TaskStepUpdateKey>>

\* the loop at lines 125-156, from its i-th iteration: the set of possible returns
RECURSIVE ValidateActions(_, _)
ValidateActions(ncfg, i) ==
    IF i > Len(NormalizedActions) THEN { [ncfg |-> ncfg, err |-> "nil"] }
    ELSE LET action == NormalizedActions[i]
             made == IF ncfg.DefaultNotificationStrategy.isNil
                     THEN MakeMap(<<>>)
                     ELSE ncfg.DefaultNotificationStrategy
             ok == action \in DOMAIN made.kv
             dns == IF ok THEN made
                    ELSE MakeMap((action :> NotificationStrategyAlways) @@ made.kv)
             defaultStrategy == dns.kv[action]
             n == [ncfg EXCEPT !.DefaultNotificationStrategy = dns]
             e == validateStrategyForAction(action, defaultStrategy)
             te == TemplateLoopErrors(ncfg.TemplateNotificationStrategies)
         IN  IF e = errNotAllowed THEN { [ncfg |-> n, err |-> ErrDefaultNotAllowed] }
             ELSE IF e = errUnknown THEN { [ncfg |-> n, err |-> ErrDefaultUnknown] }
             ELSE IF te # {} THEN { [ncfg |-> n, err |-> x] : x \in te }
             ELSE ValidateActions(n, i + 1)

validateAndNormalizeNotificationStrategyNoKeyCheck(ncfg) ==
    ValidateActions(ncfg, 1)

\* validateAndNormalizeNotificationStrategy: the set of its possible returns
validateAndNormalizeNotificationStrategy(ncfg) ==
    IF ~ncfg.DefaultNotificationStrategy.isNil
       /\ \E action \in DOMAIN ncfg.DefaultNotificationStrategy.kv :
              ~validateActionName(action)
    THEN { [ncfg |-> ncfg, err |-> ErrDefaultAction] }
    ELSE ValidateActions(ncfg, 1)

-----------------------------------------------------------------------------
(* pkg/notify: the registries *)

\* RegisterSender: senders[name] = notificationBackend{...}
RegisterSender(s, name, sender, defaultNotificationStrategy, templateNotificationStrategies) ==
    (name :> [sender |-> sender,
              defaultNotificationStrategy |-> defaultNotificationStrategy,
              templateNotificationStrategies |-> templateNotificationStrategies]) @@ s

\* RegisterActions: actions = na
RegisterActions(na) == na

-----------------------------------------------------------------------------
(* pkg/notify/init: Init *)

\* the backend types of the switch at line 37
OpsgenieType == "opsgenie"
SlackType == "slack"
WebhookType == "webhook"

\* the body of the switch at lines 37-110 for a validated backend: the error it
\* returns, "nil" when it reaches RegisterSender.  ncfg.Config is "valid",
\* "undecodable" (json.Unmarshal fails) or "unusable" (it decodes, and the
\* opsgenie sender cannot be instantiated from it or the webhook credentials it
\* names cannot be retrieved).
BackendError(ncfg) ==
    CASE ncfg.Type = OpsgenieType ->
            IF ncfg.Config = "undecodable" THEN errRetrieveCfg
            ELSE IF ncfg.Config = "unusable" THEN ErrInstantiate
            ELSE "nil"
      [] ncfg.Type = SlackType ->
            IF ncfg.Config = "undecodable" THEN errRetrieveCfg ELSE "nil"
      [] ncfg.Type = WebhookType ->
            IF ncfg.Config \in {"undecodable", "unusable"} THEN errRetrieveCfg
            ELSE "nil"
      [] OTHER -> ErrBackendType

\* the loop at lines 28-111 from the i-th backend of `order` (the order in which
\* the range over the map cfg.NotifyConfig yields its keys): the set of possible
\* outcomes, each the registry, the names registered by this call, and the error
RECURSIVE InitLoop(_, _, _, _, _)
InitLoop(cfg, order, i, s, reg) ==
    IF i > Len(order) THEN { [senders |-> s, registered |-> reg, err |-> "nil"] }
    ELSE LET name == order[i]
             ncfg == cfg.NotifyConfig[name]
         IN  UNION {
               IF v.err # "nil"
               THEN { [senders |-> s, registered |-> reg, err |-> v.err] }
               ELSE LET \* save normalisation modifications (line 35)
                        saved == [ncfg EXCEPT !.DefaultNotificationStrategy =
                                                v.ncfg.DefaultNotificationStrategy]
                        e == BackendError(saved)
                    IN  IF e # "nil"
                        THEN { [senders |-> s, registered |-> reg, err |-> e] }
                        ELSE InitLoop(cfg, order, i + 1,
                                 RegisterSender(s, name, saved.Type,
                                     saved.DefaultNotificationStrategy.kv,
                                     saved.TemplateNotificationStrategies),
                                 reg \cup {name})
               : v \in validateAndNormalizeNotificationStrategy(ncfg) }

\* the orders in which a range over a map with key set S can yield the keys
Orders(S) == { o \in [1..Cardinality(S) -> S] : { o[i] : i \in 1..Cardinality(S) } = S }

NoCall == [called |-> FALSE, cfg |-> "none", err |-> "nil", registered |-> {},
           registerActionsCalled |-> FALSE, actions0 |-> "none"]

InitOutcomesEarlyActions(cfg, order, s, a) ==
    IF cfg.err THEN { [senders |-> s, registered |-> {}, err |-> ErrConfig,
                       actions |-> a, registerActionsCalled |-> FALSE] }
    ELSE { [senders |-> o.senders, registered |-> o.registered, err |-> o.err,
            actions |-> RegisterActions(cfg.NotifyActions),
            registerActionsCalled |-> TRUE]
           : o \in InitLoop(cfg, order, 1, s, {}) }

\* Init as a function of the configuration in the store, the order of the range
\* over cfg.NotifyConfig and the registries: the set of its possible outcomes
InitOutcomes(cfg, order, s, a) ==
    IF cfg.err THEN { [senders |-> s, registered |-> {}, err |-> ErrConfig,
                       actions |-> a, registerActionsCalled |-> FALSE] }
    ELSE { [senders |-> o.senders, registered |-> o.registered, err |-> o.err,
            actions |-> IF o.err = "nil" THEN RegisterActions(cfg.NotifyActions) ELSE a,
            registerActionsCalled |-> (o.err = "nil")]
           : o \in InitLoop(cfg, order, 1, s, {}) }

-----------------------------------------------------------------------------
(* pkg/auth *)

\* utils.ListContainsString and utils.HasIntersection; a list is modelled by the
\* set of its elements
ListContainsString(list, str) == str \in list
HasIntersection(a, b) == a \cap b # {}

\* the errors of package auth; "nil" is the nil error
ErrForbidden == "forbidden"
ErrNilTask == "nil task"
ErrNilTemplate == "nil tasktemplate"

\* a context holds the caller's identity ("" when it holds none) and groups
GetIdentity(ctx) == ctx.id
GetGroups(ctx) == ctx.groups

\* IsAdmin, given the package's admin lists
IsAdmin(ctx, users, groups) ==
    IF ListContainsString(users, GetIdentity(ctx)) THEN "nil"
    ELSE IF HasIntersection(groups, GetGroups(ctx)) THEN "nil"
    ELSE ErrForbidden

IsRequester(ctx, t) ==
    IF t.RequesterUsername # GetIdentity(ctx) THEN ErrForbidden ELSE "nil"

IsWatcher(ctx, t) ==
    IF ListContainsString(t.WatcherUsernames, GetIdentity(ctx)) THEN "nil"
    ELSE IF HasIntersection(t.WatcherGroups, GetGroups(ctx)) THEN "nil"
    ELSE ErrForbidden

IsTemplateOwner(ctx, tt) ==
    IF tt.isNil THEN ErrNilTemplate
    ELSE IF ListContainsString(tt.AllowedResolverUsernames, GetIdentity(ctx)) THEN "nil"
    ELSE IF HasIntersection(tt.AllowedResolverGroups, GetGroups(ctx)) THEN "nil"
    ELSE ErrForbidden

IsResolutionManagerOwnerFirst(ctx, tt, t, r) ==
    IF IsTemplateOwner(ctx, tt) = "nil" THEN "nil"
    ELSE IF t.isNil THEN ErrNilTask
    ELSE IF ListContainsString(t.ResolverUsernames, GetIdentity(ctx)) THEN "nil"
    ELSE IF ~r.isNil /\ r.ResolverUsername = GetIdentity(ctx) THEN "nil"
    ELSE IF HasIntersection(t.ResolverGroups, GetGroups(ctx)) THEN "nil"
    ELSE ErrForbidden

IsResolutionManager(ctx, tt, t, r) ==
    IF t.isNil THEN ErrNilTask
    ELSE IF IsTemplateOwner(ctx, tt) = "nil" THEN "nil"
    ELSE IF ListContainsString(t.ResolverUsernames, GetIdentity(ctx)) THEN "nil"
    ELSE IF ~r.isNil /\ r.ResolverUsername = GetIdentity(ctx) THEN "nil"
    ELSE IF HasIntersection(t.ResolverGroups, GetGroups(ctx)) THEN "nil"
    ELSE ErrForbidden

-----------------------------------------------------------------------------
(* The configurations the model draws from *)

\* the most keys of a default_notification_strategy, and the longest list of
\* per-template strategies of one action
MaxDefaultKeys == 2
MaxStrats == 1

\* the action names and strategy values of a configuration: the valid ones, and
\* one that is not valid of each
ActionNames == {TaskValidationKey, TaskStateUpdateKey, TaskStepUpdateKey, "task_creation"}
StrategyNames == {NotificationStrategyAlways, NotificationStrategySilent,
                  NotificationStrategyFailureOnly, NotificationStrategyFailureOrDone,
                  "sometimes"}

TemplateNotificationStrategy(strategy) ==
    [Templates |-> {"hello.*"}, NotificationStrategy |-> strategy]

StratLists(n) ==
    UNION { [1..k -> { TemplateNotificationStrategy(x) : x \in StrategyNames }] : k \in 0..n }

\* default_notification_strategy maps with at most n keys, and the nil map
DefaultMaps(n) ==
    {NilMap} \cup
    { MakeMap(f) : f \in UNION { [D -> StrategyNames] :
                       D \in { S \in SUBSET ActionNames : Cardinality(S) <= n } } }

\* template_notification_strategies with at most one action, of at most n strategies
TemplateMaps(n) ==
    UNION { [D -> StratLists(n)] : D \in {{}} \cup { {a} : a \in ActionNames } }

NotifyBackend(type, config, dns, tns) ==
    [Type |-> type, Config |-> config,
     DefaultNotificationStrategy |-> dns, TemplateNotificationStrategies |-> tns]

ValidateInputs ==
    { NotifyBackend(SlackType, "valid", d, t) :
        d \in DefaultMaps(MaxDefaultKeys), t \in TemplateMaps(MaxStrats) }

-----------------------------------------------------------------------------
(* Specification of validateAndNormalizeNotificationStrategy alone *)

InitValidate ==
    /\ vNcfg \in ValidateInputs
    /\ vOut = [ncfg |-> vNcfg, err |-> "pending"]
    /\ InitNotifyIdle
    /\ InitAuthIdle
    /\ InitApiIdle
    /\ InitRunnerIdle
    /\ InitDbIdle
    /\ InitCreateIdle
    /\ InitResumeIdle
    /\ InitSendIdle
    /\ InitServeIdle

Validate ==
    /\ vOut.err = "pending"
    /\ vOut' \in validateAndNormalizeNotificationStrategy(vNcfg)
    /\ UNCHANGED vNcfg
    /\ UNCHANGED ValidateOthers

NextValidate == Validate

SpecValidate == InitValidate /\ [][NextValidate]_vars

-----------------------------------------------------------------------------
(* Specification of the notify registries under calls of Init *)

BackendNames == {"ops", "chat"}

\* type and config of a backend: every outcome of every case of the switch
BackendKinds ==
    { [Type |-> SlackType, Config |-> "valid"],
      [Type |-> SlackType, Config |-> "undecodable"],
      [Type |-> OpsgenieType, Config |-> "valid"],
      [Type |-> OpsgenieType, Config |-> "unusable"],
      [Type |-> WebhookType, Config |-> "valid"],
      [Type |-> WebhookType, Config |-> "unusable"],
      [Type |-> "pager", Config |-> "valid"] }

\* the explicit (action, strategy) entries of a backend of an Init configuration
InitEntries ==
    { <<TaskValidationKey, NotificationStrategyFailureOnly>>,
      <<TaskValidationKey, NotificationStrategyFailureOrDone>>,
      <<TaskStateUpdateKey, NotificationStrategyFailureOnly>>,
      <<TaskStepUpdateKey, "sometimes">>,
      <<"task_creation", NotificationStrategyAlways>> }

\* the strategies of a backend: none explicit, or one entry, as a default or as a
\* per-template strategy
InitStrategyCfgs ==
    { <<NilMap, <<>>>> }
    \cup { <<MakeMap(e[1] :> e[2]), <<>>>> : e \in InitEntries }
    \cup { <<NilMap, e[1] :> <<TemplateNotificationStrategy(e[2])>>>> : e \in InitEntries }

InitBackends ==
    { NotifyBackend(k.Type, k.Config, c[1], c[2]) : k \in BackendKinds, c \in InitStrategyCfgs }

PlainBackend == NotifyBackend(SlackType, "valid", NilMap, <<>>)

\* cfg.NotifyConfig: no backend, one backend, or two of which one is plain
NotifyConfigs ==
    { <<>> }
    \cup { n :> b : n \in BackendNames, b \in InitBackends }
    \cup { (n :> b) @@ [m \in BackendNames |-> PlainBackend] :
             n \in BackendNames, b \in InitBackends }

NotifyActionsValues == {"actions_a", "actions_b"}

\* what utask.Config(store) returns: an error, or a configuration
Configs ==
    { [err |-> TRUE, NotifyConfig |-> <<>>, NotifyActions |-> "none"] }
    \cup { [err |-> FALSE, NotifyConfig |-> nc, NotifyActions |-> na] :
             nc \in NotifyConfigs, na \in NotifyActionsValues }

InitNotify ==
    /\ InitValidateIdle
    /\ InitNotifyIdle
    /\ InitAuthIdle
    /\ InitApiIdle
    /\ InitRunnerIdle
    /\ InitDbIdle
    /\ InitCreateIdle
    /\ InitResumeIdle
    /\ InitSendIdle
    /\ InitServeIdle

\* Init(store), with cfg what utask.Config(store) returns
NotifyInit(cfg, order) ==
    /\ ~initCall.called
    /\ \E o \in InitOutcomes(cfg, order, senders, actions) :
        /\ senders' = o.senders
        /\ actions' = o.actions
        /\ initCall' = [called |-> TRUE, cfg |-> cfg, err |-> o.err,
                        registered |-> o.registered,
                        registerActionsCalled |-> o.registerActionsCalled,
                        actions0 |-> actions]
    /\ UNCHANGED NotifyOthers

\* the caller of Init has got its result
InitReturned ==
    /\ initCall.called
    /\ initCall' = NoCall
    /\ UNCHANGED <<senders, actions>>
    /\ UNCHANGED NotifyOthers

NextNotify ==
    \/ \E cfg \in Configs : \E order \in Orders(DOMAIN cfg.NotifyConfig) :
          NotifyInit(cfg, order)
    \/ InitReturned

SpecNotify == InitNotify /\ [][NextNotify]_vars

-----------------------------------------------------------------------------
(* Claims about pkg/notify/init *)

ValidActionNames == {"task_validation", "task_state_update", "task_step_update"}
ValidStrategies == {"always", "silent", "failure_only", "failure_or_done"}
FailureStrategies == {"failure_only", "failure_or_done"}

\* the strategy values of a default map (a function) and of per-template strategies
DefaultValues(kv) == { kv[a] : a \in DOMAIN kv }
TemplateValues(tns, a) == { tns[a][i].NotificationStrategy : i \in 1..Len(tns[a]) }

\* a failure strategy for task_validation, as a default or as a per-template strategy
FailureOnValidation(kv, tns) ==
    \/ "task_validation" \in DOMAIN kv /\ kv["task_validation"] \in FailureStrategies
    \/ "task_validation" \in DOMAIN tns
         /\ TemplateValues(tns, "task_validation") \cap FailureStrategies # {}

\* every action name and every strategy value of a backend configuration is valid
AllNamesValid(ncfg) ==
    /\ DOMAIN ncfg.DefaultNotificationStrategy.kv \subseteq ValidActionNames
    /\ DefaultValues(ncfg.DefaultNotificationStrategy.kv) \subseteq ValidStrategies
    /\ DOMAIN ncfg.TemplateNotificationStrategies \subseteq ValidActionNames
    /\ \A a \in DOMAIN ncfg.TemplateNotificationStrategies :
          TemplateValues(ncfg.TemplateNotificationStrategies, a) \subseteq ValidStrategies

\* C1: no registered backend has failure_only or failure_or_done for
\* task_validation, as its default or as a per-template strategy; and a call of
\* Init whose configuration holds such a backend returns an error without having
\* called RegisterSender for that backend.
C1_NoFailureStrategyOnValidation ==
    /\ \A n \in DOMAIN senders :
          ~FailureOnValidation(senders[n].defaultNotificationStrategy,
                               senders[n].templateNotificationStrategies)
    /\ initCall.called =>
          \A n \in DOMAIN initCall.cfg.NotifyConfig :
             LET ncfg == initCall.cfg.NotifyConfig[n]
             IN  FailureOnValidation(ncfg.DefaultNotificationStrategy.kv,
                                     ncfg.TemplateNotificationStrategies)
                 => initCall.err # "nil" /\ n \notin initCall.registered

\* a call of Init registered one backend and then rejected the other one, which has
\* a failure strategy for task_validation
C1_Witness ==
    /\ initCall.called
    /\ initCall.registered # {}
    /\ initCall.err \in {ErrDefaultNotAllowed, ErrTemplateNotAllowed}
    /\ \E n \in DOMAIN initCall.cfg.NotifyConfig :
          LET ncfg == initCall.cfg.NotifyConfig[n]
          IN  FailureOnValidation(ncfg.DefaultNotificationStrategy.kv,
                                  ncfg.TemplateNotificationStrategies)

\* a backend configuration that C9 calls invalid
InvalidBackend(ncfg) ==
    \/ ~AllNamesValid(ncfg)
    \/ FailureOnValidation(ncfg.DefaultNotificationStrategy.kv,
                           ncfg.TemplateNotificationStrategies)
    \/ ncfg.Type \notin {"opsgenie", "slack", "webhook"}
    \/ ncfg.Config = "undecodable"

\* C9: a call of Init whose configuration holds an invalid backend returns an
\* error, does not call RegisterActions and leaves the registered actions as they
\* were.
C9_InvalidConfigAbortsInit ==
    (/\ initCall.called
     /\ \E n \in DOMAIN initCall.cfg.NotifyConfig :
           InvalidBackend(initCall.cfg.NotifyConfig[n]))
    => /\ initCall.err # "nil"
       /\ ~initCall.registerActionsCalled
       /\ actions = initCall.actions0

\* actions were registered by an earlier call; this call, with other actions in
\* its configuration, registered a backend and then failed on an invalid one
C9_Witness ==
    /\ initCall.called
    /\ \E n \in DOMAIN initCall.cfg.NotifyConfig :
          InvalidBackend(initCall.cfg.NotifyConfig[n])
    /\ initCall.registered # {}
    /\ initCall.actions0 \in NotifyActionsValues
    /\ initCall.cfg.NotifyActions # initCall.actions0

\* C10: the function returns without error only if every action name of the
\* default and of the per-template strategies is one of the three valid ones and
\* every strategy value is one of the four valid ones.
C10_AcceptsOnlyValidNames ==
    vOut.err = "nil" => AllNamesValid(vNcfg)

\* an accepted configuration with two explicit default strategies and a
\* per-template strategy
C10_Witness ==
    /\ vOut.err = "nil"
    /\ Cardinality(DOMAIN vNcfg.DefaultNotificationStrategy.kv) = 2
    /\ \E a \in DOMAIN vNcfg.TemplateNotificationStrategies :
          Len(vNcfg.TemplateNotificationStrategies[a]) = MaxStrats

-----------------------------------------------------------------------------
(* Specification of IsResolutionManager alone *)

Users == {"alice", "bob"}
Groups == {"ops", "dev"}

Contexts == [id : Users \cup {""}, groups : SUBSET Groups]

NilPtr == [isNil |-> TRUE]

\* the fields of a template, a task and a resolution that package auth reads
AuthTemplates ==
    {NilPtr} \cup [isNil : {FALSE}, AllowedResolverUsernames : SUBSET Users,
                   AllowedResolverGroups : SUBSET Groups]
AuthTasks ==
    {NilPtr} \cup [isNil : {FALSE}, ResolverUsernames : SUBSET Users,
                   ResolverGroups : SUBSET Groups]
AuthResolutions ==
    {NilPtr} \cup [isNil : {FALSE}, ResolverUsername : Users \cup {""}]

InitAuth ==
    /\ InitValidateIdle
    /\ InitNotifyIdle
    /\ InitApiIdle
    /\ InitRunnerIdle
    /\ InitDbIdle
    /\ InitCreateIdle
    /\ InitResumeIdle
    /\ InitSendIdle
    /\ InitServeIdle
    /\ adminUsers = {"root"}
    /\ adminGroups = {}
    /\ aIn \in [ctx : Contexts, tt : AuthTemplates, t : AuthTasks, r : AuthResolutions]
    /\ aOut = "pending"

CallIsResolutionManager ==
    /\ aOut = "pending"
    /\ aOut' = IsResolutionManager(aIn.ctx, aIn.tt, aIn.t, aIn.r)
    /\ UNCHANGED <<adminUsers, adminGroups, aIn>>
    /\ UNCHANGED AuthOthers

NextAuth == CallIsResolutionManager

SpecAuth == InitAuth /\ [][NextAuth]_vars

-----------------------------------------------------------------------------
(* Claims about pkg/auth *)

\* the four conditions of C6, on the arguments of the call
C6_TemplateOwner ==
    /\ ~aIn.tt.isNil
    /\ \/ aIn.ctx.id \in aIn.tt.AllowedResolverUsernames
       \/ aIn.ctx.groups \cap aIn.tt.AllowedResolverGroups # {}
C6_Allowed ==
    \/ C6_TemplateOwner
    \/ aIn.ctx.id \in aIn.t.ResolverUsernames
    \/ ~aIn.r.isNil /\ aIn.r.ResolverUsername = aIn.ctx.id
    \/ aIn.ctx.groups \cap aIn.t.ResolverGroups # {}

\* C6: for a non-nil task IsResolutionManager returns nil exactly when the caller
\* is a template owner, is among the task's resolver usernames, is the
\* resolution's resolver, or shares a group with the task's resolver groups, and
\* a Forbidden error otherwise; for a nil task it returns an error in every case.
C6_ResolutionManager ==
    aOut # "pending" =>
        IF aIn.t.isNil THEN aOut # "nil"
        ELSE /\ (aOut = "nil") <=> C6_Allowed
             /\ ~C6_Allowed => aOut = "forbidden"

\* the call was made with a nil task by a template owner
C6_Witness ==
    /\ aOut # "pending"
    /\ aIn.t.isNil
    /\ C6_TemplateOwner

-----------------------------------------------------------------------------
(* api: the handler chains of the routes *)

StatusOK == 200
StatusUnauthorized == 401
StatusMethodNotAllowed == 405

\* the handlers of some routes of build, in the order gin runs them: the
\* middlewares of the router, the auth middleware of the group, and the handlers
\* given with the route.  The first four are the admin-only routes.
Routes ==
    [ DeleteTask |->
        <<"ajaxHeadersMiddleware", "auditLogsMiddleware", "authMiddleware",
          "requireAdmin", "maintenanceMode", "handler.DeleteTask">>,
      EditTaskResolution |->
        <<"ajaxHeadersMiddleware", "auditLogsMiddleware", "authMiddleware",
          "requireAdmin", "maintenanceMode", "handler.UpdateResolution">>,
      EditTaskResolutionStep |->
        <<"ajaxHeadersMiddleware", "auditLogsMiddleware", "authMiddleware",
          "requireAdmin", "maintenanceMode", "handler.UpdateResolutionStep">>,
      ReencryptData |->
        <<"ajaxHeadersMiddleware", "auditLogsMiddleware", "authMiddleware",
          "requireAdmin", "keyRotate">>,
      CreateTask |->
        <<"ajaxHeadersMiddleware", "auditLogsMiddleware", "authMiddleware",
          "maintenanceMode", "handler.CreateTask">>,
      GetTask |->
        <<"ajaxHeadersMiddleware", "auditLogsMiddleware", "authMiddleware",
          "handler.GetTask">> ]

RouteNames == DOMAIN Routes
AdminRoutes == {"DeleteTask", "EditTaskResolution", "EditTaskResolutionStep", "ReencryptData"}

\* gin: c.AbortWithStatus(code) writes the status, if none is written yet, and
\* prevents the pending handlers from being called
AbortWithStatus(c, code) ==
    [c EXCEPT !.status = IF c.status = 0 THEN code ELSE c.status, !.aborted = TRUE]

\* gin: c.JSON(code, obj) and the like write the status, if none is written yet
WriteStatus(c, code) ==
    [c EXCEPT !.status = IF c.status = 0 THEN code ELSE c.status]

\* the auth middleware: the provider rejects the request, or yields the caller's
\* identity and groups, which the middleware stores in the context
authMiddleware(c) ==
    IF c.caller.rejected THEN AbortWithStatus(c, StatusUnauthorized) ELSE c

requireAdminNoAbort(c, users, groups) ==
    IF IsAdmin(c.caller, users, groups) # "nil"
    THEN WriteStatus(c, StatusUnauthorized)
    ELSE c

requireAdmin(c, users, groups) ==
    IF IsAdmin(c.caller, users, groups) # "nil"
    THEN AbortWithStatus(c, StatusUnauthorized)
    ELSE c

\* maintenanceMode writes the response and returns; it does not abort
maintenanceMode(c, maintenance) ==
    IF maintenance THEN WriteStatus(c, StatusMethodNotAllowed) ELSE c

\* one handler of a chain
RunHandler(c, h, users, groups, maintenance) ==
    LET c1 == [c EXCEPT !.ran = Append(c.ran, h)]
    IN  CASE h = "authMiddleware" -> authMiddleware(c1)
          [] h = "requireAdmin" -> requireAdmin(c1, users, groups)
          [] h = "maintenanceMode" -> maintenanceMode(c1, maintenance)
          [] h \in {"ajaxHeadersMiddleware", "auditLogsMiddleware"} -> c1
          [] OTHER -> WriteStatus(c1, StatusOK)

\* gin's Context.Next: the handlers from the i-th on run in order, until one
\* aborts.  A handler that returns without calling c.Next() does not stop the
\* chain; one that calls c.Next() runs the rest of the chain inside the call.
RECURSIVE RunChain(_, _, _, _, _, _)
RunChain(c, handlers, i, users, groups, maintenance) ==
    IF i > Len(handlers) \/ c.aborted THEN c
    ELSE RunChain(RunHandler(c, handlers[i], users, groups, maintenance),
                  handlers, i + 1, users, groups, maintenance)

-----------------------------------------------------------------------------
(* Specification of the api server's routes *)

\* what the auth provider makes of a request: it rejects it, or names the caller
Callers ==
    { [rejected |-> TRUE, id |-> "", groups |-> {}] }
    \cup [rejected : {FALSE}, id : Users \cup {""}, groups : SUBSET Groups]

InitApi ==
    /\ InitValidateIdle
    /\ InitNotifyIdle
    /\ InitRunnerIdle
    /\ InitDbIdle
    /\ InitCreateIdle
    /\ InitResumeIdle
    /\ InitSendIdle
    /\ InitServeIdle
    /\ adminUsers = {}
    /\ adminGroups = {}
    /\ aIn = [ctx |-> [id |-> "", groups |-> {}], tt |-> [isNil |-> TRUE],
              t |-> [isNil |-> TRUE], r |-> [isNil |-> TRUE]]
    /\ aOut = "pending"
    /\ FMaintenanceMode \in BOOLEAN
    /\ req = [served |-> FALSE, route |-> "none", caller |-> "none", ran |-> <<>>,
              status |-> 0, aborted |-> FALSE, admins |-> <<{}, {}>>]

\* auth Init, called at boot before the server listens: it rejects a
\* configuration without any admin
AuthInit(users, groups) ==
    /\ ~req.served
    /\ ~(Cardinality(users) < 1 /\ Cardinality(groups) < 1)
    /\ adminUsers' = users
    /\ adminGroups' = groups
    /\ UNCHANGED <<FMaintenanceMode, req>>
    /\ UNCHANGED ApiOthers

\* the server serves one request; req.admins keeps the admin lists it was served
\* under
Serve(route, caller) ==
    /\ req' = RunChain([served |-> TRUE, route |-> route, caller |-> caller,
                        ran |-> <<>>, status |-> 0, aborted |-> FALSE,
                        admins |-> <<adminUsers, adminGroups>>],
                       Routes[route], 1, adminUsers, adminGroups, FMaintenanceMode)
    /\ UNCHANGED <<adminUsers, adminGroups, FMaintenanceMode>>
    /\ UNCHANGED ApiOthers

NextApi ==
    \/ \E users \in SUBSET Users, groups \in SUBSET Groups : AuthInit(users, groups)
    \/ \E route \in RouteNames, caller \in Callers : Serve(route, caller)

SpecApi == InitApi /\ [][NextApi]_vars

-----------------------------------------------------------------------------
(* Claims about the api server *)

\* the route handler of a route: the last handler of its chain
C7_RouteHandler(route) == Routes[route][Len(Routes[route])]
C7_Ran(h) == \E i \in 1..Len(req.ran) : req.ran[i] = h
C7_CallerIsAdmin ==
    \/ req.caller.id \in req.admins[1]
    \/ req.caller.groups \cap req.admins[2] # {}

\* C7: on an admin-only route the route handler runs only for a caller whose
\* identity is in the admin user list or whose groups intersect the admin groups;
\* for any other caller that reaches requireAdmin the response status is 401 and
\* requireAdmin is the last handler of the chain that ran.
C7_AdminRoutesRequireAdmin ==
    (req.served /\ req.route \in AdminRoutes) =>
        /\ C7_Ran(C7_RouteHandler(req.route)) => C7_CallerIsAdmin
        /\ (C7_Ran("requireAdmin") /\ ~C7_CallerIsAdmin) =>
              /\ req.status = 401
              /\ req.ran[Len(req.ran)] = "requireAdmin"

\* a caller who is no admin was stopped by requireAdmin on an admin-only route
\* whose chain holds maintenanceMode, while admins are configured
C7_Witness ==
    /\ req.served
    /\ req.route = "DeleteTask"
    /\ req.admins[1] # {}
    /\ req.caller.id \in Users
    /\ ~C7_CallerIsAdmin
    /\ C7_Ran("requireAdmin")

-----------------------------------------------------------------------------
(* pkg/plugins/builtin and engine/step: registration of the runners *)

ErrConflictingRunner == "conflicting runner names"

\* step.RegisterRunner: a name that is registered already is rejected
RegisterRunner(rs, name, r) ==
    IF name \in DOMAIN rs
    THEN [runners |-> rs, err |-> ErrConflictingRunner]
    ELSE [runners |-> (name :> r) @@ rs, err |-> "nil"]

\* the plugins of Register, by PluginName(), in the order of its list
BuiltinPlugins ==
    <<"ssh", "http", "apiovh", "subtask", "notify", "echo", "email", "ping",
      "script", "tag", "callback", "batch">>

\* a loop that registers the runners of a list in order and returns the first
\* error of step.RegisterRunner
RECURSIVE RegisterLoop(_, _, _, _, _)
RegisterLoop(list, origin, i, rs, attempted) ==
    IF i > Len(list) THEN [runners |-> rs, attempted |-> attempted, err |-> "nil"]
    ELSE LET o == RegisterRunner(rs, list[i], [origin |-> origin, name |-> list[i]])
         IN  IF o.err # "nil"
             THEN [runners |-> o.runners, attempted |-> Append(attempted, list[i]),
                   err |-> o.err]
             ELSE RegisterLoop(list, origin, i + 1, o.runners, Append(attempted, list[i]))

\* a loop that goes on after an error and returns the first one
RECURSIVE RegisterLoopKeepGoing(_, _, _, _, _, _)
RegisterLoopKeepGoing(list, origin, i, rs, attempted, err) ==
    IF i > Len(list) THEN [runners |-> rs, attempted |-> attempted, err |-> err]
    ELSE LET o == RegisterRunner(rs, list[i], [origin |-> origin, name |-> list[i]])
         IN  RegisterLoopKeepGoing(list, origin, i + 1, o.runners,
                                   Append(attempted, list[i]),
                                   IF err = "nil" THEN o.err ELSE err)

RegisterKeepGoing(rs) == RegisterLoopKeepGoing(BuiltinPlugins, "builtin", 1, rs, <<>>, "nil")

\* builtin.Register
Register(rs) == RegisterLoop(BuiltinPlugins, "builtin", 1, rs, <<>>)

\* functionrunner.Init: registers a runner for each function, by its name
FunctionRunnerInit(rs, functions) == RegisterLoop(functions, "function", 1, rs, <<>>)

-----------------------------------------------------------------------------
(* Specification of the bootstrap of the runner registry *)

\* the most functions of a bootstrap
MaxFunctions == 2

\* function names: two of them are names of builtin plugins
FunctionNames == {"echo", "ssh", "greet", "deploy"}

\* the lists of functions.List(): distinct names
FunctionLists ==
    { l \in UNION { [1..k -> FunctionNames] : k \in 0..MaxFunctions } :
        \A i, j \in 1..Len(l) : i # j => l[i] # l[j] }

InitRunner ==
    /\ InitValidateIdle
    /\ InitNotifyIdle
    /\ InitAuthIdle
    /\ InitApiIdle
    /\ InitRunnerIdle
    /\ InitDbIdle
    /\ InitCreateIdle
    /\ InitResumeIdle
    /\ InitSendIdle
    /\ InitServeIdle

BootRegister ==
    /\ LET o == Register(runners)
       IN  /\ runners' = o.runners
           /\ regCall' = [op |-> "Register", list |-> BuiltinPlugins, runners0 |-> runners,
                          attempted |-> o.attempted, err |-> o.err]
    /\ UNCHANGED RunnerOthers

BootFunctionRunnerInit(functions) ==
    /\ LET o == FunctionRunnerInit(runners, functions)
       IN  /\ runners' = o.runners
           /\ regCall' = [op |-> "functionrunner.Init", list |-> functions,
                          runners0 |-> runners, attempted |-> o.attempted, err |-> o.err]
    /\ UNCHANGED RunnerOthers

NextRunner ==
    \/ BootRegister
    \/ \E functions \in FunctionLists : BootFunctionRunnerInit(functions)

SpecRunner == InitRunner /\ [][NextRunner]_vars

-----------------------------------------------------------------------------
(* Claims about the registration of the runners *)

\* the first index of the call's list whose name was registered before the call;
\* 0 when there is none
C8_FirstClash ==
    LET clashes == { i \in 1..Len(regCall.list) : regCall.list[i] \in DOMAIN regCall.runners0 }
    IN  IF clashes = {} THEN 0
        ELSE CHOOSE i \in clashes : \A j \in clashes : i <= j

\* C8: a bootstrap call (builtin Register, functionrunner Init) whose list holds a
\* name that is registered already returns an error, has called
\* step.RegisterRunner for the names up to the first such name and for no later
\* one, and leaves every runner registered before the call as it was; a call
\* without such a name registers its whole list and returns nil.
C8_ReRegistrationRejected ==
    regCall.op # "none" =>
        /\ \A n \in DOMAIN regCall.runners0 :
              n \in DOMAIN runners /\ runners[n] = regCall.runners0[n]
        /\ IF C8_FirstClash = 0
           THEN regCall.err = "nil" /\ regCall.attempted = regCall.list
           ELSE /\ regCall.err # "nil"
                /\ regCall.attempted = SubSeq(regCall.list, 1, C8_FirstClash)

\* Register was called when a function named echo was registered: it failed on
\* echo after it registered the plugins before it
C8_Witness ==
    /\ regCall.op = "Register"
    /\ regCall.err # "nil"
    /\ "echo" \in DOMAIN regCall.runners0
    /\ "ssh" \notin DOMAIN regCall.runners0
    /\ runners["echo"].origin = "function"
    /\ runners["ssh"].origin = "builtin"

-----------------------------------------------------------------------------
(* pkg/taskutils: CreateTask, and the database calls it makes *)

Db == [tasks |-> tasks, comments |-> comments, resolutions |-> resolutions,
       notices |-> notices, calls |-> dbCalls]

\* the errors CreateTask returns; "nil" is the nil error
ErrTemplateBlocked == "Template not available (blocked)"
ErrShouldBeAutoRunnable == "invalid tasktemplate: should be auto_runnable"
ErrDelay == "delay"
ErrDb == "database error"

\* the database after one more call on it (or on the notifier) was made
Called(db, call) == [db EXCEPT !.calls = Append(@, call)]

\* the outcome of a database call: `fail' names the call that the database
\* refuses, if any
DbFails(fail, call) == fail = call

\* task.Create: inserts a task in state TODO, with no resolution, under a fresh
\* public id
TaskCreate(db, tt, reqUsername, reqGroups, watcherUsernames, watcherGroups, resolverUsernames, resolverGroups, tags, b, delayed, fail) ==
    IF DbFails(fail, "task.Create")
    THEN [t |-> NilPtr, err |-> ErrDb, db |-> Called(db, "task.Create")]
    ELSE LET t == [isNil |-> FALSE,
                   PublicID |-> Len(db.tasks) + 1,
                   TemplateName |-> tt.Name,
                   RequesterUsername |-> reqUsername,
                   RequesterGroups |-> reqGroups,
                   WatcherUsernames |-> watcherUsernames,
                   WatcherGroups |-> watcherGroups,
                   ResolverUsernames |-> resolverUsernames,
                   ResolverGroups |-> resolverGroups,
                   State |-> "TODO",
                   Resolution |-> NilPtr,
                   Comments |-> <<>>,
                   BatchID |-> b,
                   Tags |-> tags,
                   Delayed |-> delayed]
         IN  [t |-> t, err |-> "nil",
              db |-> [Called(db, "task.Create") EXCEPT !.tasks = Append(@, t)]]

\* task.CreateComment: inserts a comment of the user on the task
TaskCreateComment(db, t, reqUsername, comment, fail) ==
    IF DbFails(fail, "task.CreateComment")
    THEN [com |-> NilPtr, err |-> ErrDb, db |-> Called(db, "task.CreateComment")]
    ELSE LET com == [isNil |-> FALSE, TaskID |-> t.PublicID,
                     Username |-> reqUsername, Content |-> comment]
         IN  [com |-> com, err |-> "nil",
              db |-> [Called(db, "task.CreateComment") EXCEPT !.comments = Append(@, com)]]

\* tt.IsAutoRunnable
IsAutoRunnable(tt) == tt.AutoRunnable

\* t.NotifyValidationRequired: one notification that the task awaits validation
NotifyValidationRequired(db, t, tt) ==
    [Called(db, "NotifyValidationRequired")
        EXCEPT !.notices = Append(@, [TaskID |-> t.PublicID, Template |-> tt.Name])]

\* time.ParseDuration, on the delay strings the model draws from
ParsableDurations == {"10s"}
ParseDuration(s) == IF s \in ParsableDurations THEN "nil" ELSE "invalid duration"

\* resolution.Create: inserts a resolution of the task, to run automatically
\* (after delayUntil when it is set), and returns it
ResolutionCreate(db, t, resolverUsername, delayUntil, fail) ==
    IF DbFails(fail, "resolution.Create")
    THEN [resolution |-> NilPtr, err |-> ErrDb, db |-> Called(db, "resolution.Create")]
    ELSE LET r == [isNil |-> FALSE,
                   PublicID |-> Len(db.resolutions) + 1,
                   TaskID |-> t.PublicID,
                   ResolverUsername |-> resolverUsername,
                   State |-> "TO_AUTORUN",
                   DelayUntil |-> delayUntil]
         IN  [resolution |-> r, err |-> "nil",
              db |-> [Called(db, "resolution.Create") EXCEPT !.resolutions = Append(@, r)]]

\* the callers that get a resolution at once, narrowed to the admins
MayRunAtOnceAdminOnly(requester, resolutionManager, admin) == admin

\* CreateTask, the test that guards the creation of the resolution: the caller
\* is the requester of an allow-all template, a resolution manager or an admin
MayRunAtOnce(requester, resolutionManager, admin) ==
    ~(~requester /\ ~resolutionManager /\ ~admin)

\* the creation of the resolution, followed by a validation notification
CreateResolutionAlsoNotifies(in, db, t, reqUsername) ==
    LET rc == ResolutionCreate(db, t, reqUsername, NilPtr, in.fail)
    IN  IF ~in.delay.isNil /\ ParseDuration(in.delay.s) # "nil"
        THEN [t |-> NilPtr, err |-> ErrDelay, db |-> db]
        ELSE IF rc.err # "nil" THEN [t |-> NilPtr, err |-> rc.err, db |-> rc.db]
        ELSE [t |-> [t EXCEPT !.Resolution = [isNil |-> FALSE, id |-> rc.resolution.PublicID]],
              err |-> "nil", db |-> NotifyValidationRequired(rc.db, t, in.tt)]

\* CreateTask, from the creation of the resolution on
CreateResolution(in, db, t, reqUsername) ==
    LET delayErr == IF in.delay.isNil THEN "nil" ELSE ParseDuration(in.delay.s)
        delayUntil == IF in.delay.isNil THEN NilPtr
                      ELSE [isNil |-> FALSE, after |-> in.delay.s]
        rc == ResolutionCreate(db, t, reqUsername, delayUntil, in.fail)
    IN  IF delayErr # "nil" THEN [t |-> NilPtr, err |-> ErrDelay, db |-> db]
        ELSE IF rc.err # "nil" THEN [t |-> NilPtr, err |-> rc.err, db |-> rc.db]
        ELSE IF ~rc.resolution.isNil
        THEN [t |-> [t EXCEPT !.Resolution = [isNil |-> FALSE, id |-> rc.resolution.PublicID]],
              err |-> "nil", db |-> rc.db]
        ELSE [t |-> t, err |-> "nil", db |-> rc.db]

\* CreateTask, after the task and its comment were created
CreateTaskChecks(in, db, t, users, groups) ==
    LET tt == in.tt
        reqUsername == GetIdentity(in.ctx)
        admin == IsAdmin(in.ctx, users, groups) = "nil"
        requester == IsRequester(in.ctx, t) = "nil" /\ tt.AllowAllResolverUsernames
        resolutionManager == IsResolutionManager(in.ctx, tt, t, NilPtr) = "nil"
    IN  IF ~IsAutoRunnable(tt) /\ tt.AllowAllResolverUsernames
        THEN [t |-> NilPtr, err |-> ErrShouldBeAutoRunnable, db |-> db]
        ELSE IF ~IsAutoRunnable(tt)
        THEN [t |-> t, err |-> "nil", db |-> NotifyValidationRequired(db, t, tt)]
        ELSE IF ~MayRunAtOnce(requester, resolutionManager, admin)
        THEN [t |-> t, err |-> "nil", db |-> NotifyValidationRequired(db, t, tt)]
        ELSE CreateResolution(in, db, t, reqUsername)

\* CreateTask with the test of tt.Blocked moved behind the creation of the task
CreateTaskBlockedLate(in, db, users, groups) ==
    LET tc == TaskCreate(db, in.tt, GetIdentity(in.ctx), GetGroups(in.ctx),
                         in.watcherUsernames, in.watcherGroups, in.resolverUsernames,
                         in.resolverGroups, in.tags, in.b, ~in.delay.isNil, in.fail)
    IN  IF tc.err # "nil" THEN [t |-> NilPtr, err |-> tc.err, db |-> tc.db]
        ELSE IF in.tt.Blocked THEN [t |-> NilPtr, err |-> ErrTemplateBlocked, db |-> tc.db]
        ELSE CreateTaskChecks(in, tc.db, tc.t, users, groups)

\* CreateTask, given the admin lists of package auth
CreateTask(in, db, users, groups) ==
    LET tt == in.tt
        reqUsername == GetIdentity(in.ctx)
        reqGroups == GetGroups(in.ctx)
        delayed == ~in.delay.isNil
        tc == TaskCreate(db, tt, reqUsername, reqGroups, in.watcherUsernames,
                         in.watcherGroups, in.resolverUsernames, in.resolverGroups,
                         in.tags, in.b, delayed, in.fail)
        cc == TaskCreateComment(tc.db, tc.t, reqUsername, in.comment, in.fail)
    IN  IF tt.Blocked THEN [t |-> NilPtr, err |-> ErrTemplateBlocked, db |-> db]
        ELSE IF tc.err # "nil" THEN [t |-> NilPtr, err |-> tc.err, db |-> tc.db]
        ELSE IF in.comment # ""
        THEN IF cc.err # "nil" THEN [t |-> NilPtr, err |-> cc.err, db |-> cc.db]
             ELSE CreateTaskChecks(in, cc.db, [tc.t EXCEPT !.Comments = <<cc.com>>],
                                   users, groups)
        ELSE CreateTaskChecks(in, tc.db, tc.t, users, groups)

-----------------------------------------------------------------------------
(* Specification SpecCreate: one call of CreateTask on an empty database *)

\* the resolver and admin lists of a call name at most alice and the group ops;
\* the caller is alice or bob, in the group ops or in none
CreateUserLists == {{}, {"alice"}}
CreateGroupLists == {{}, {"ops"}}
CreateContexts == [id : Users, groups : CreateGroupLists]

CreateTemplates ==
    [isNil : {FALSE}, Name : {"deploy"}, Blocked : BOOLEAN, AutoRunnable : BOOLEAN,
     AllowAllResolverUsernames : BOOLEAN,
     AllowedResolverUsernames : CreateUserLists,
     AllowedResolverGroups : CreateGroupLists]

\* no delay, a delay that parses and one that does not
CreateDelays == {NilPtr, [isNil |-> FALSE, s |-> "10s"], [isNil |-> FALSE, s |-> "soon"]}

DbCalls == {"task.Create", "task.CreateComment", "resolution.Create"}

CreateInputs ==
    [ctx : CreateContexts, tt : CreateTemplates,
     watcherUsernames : {{}}, watcherGroups : {{}},
     resolverUsernames : CreateUserLists, resolverGroups : CreateGroupLists,
     b : {NilPtr}, comment : {"", "please hurry"}, delay : CreateDelays,
     tags : {NilPtr}, fail : {"none"} \cup DbCalls]

InitCreate ==
    /\ InitValidateIdle
    /\ InitNotifyIdle
    /\ InitApiIdle
    /\ InitRunnerIdle
    /\ InitDbIdle
    /\ InitResumeIdle
    /\ InitSendIdle
    /\ InitServeIdle
    /\ adminUsers \in CreateUserLists
    /\ adminGroups \in CreateGroupLists
    /\ ~(adminUsers = {} /\ adminGroups = {})
    /\ aIn = "none"
    /\ aOut = "pending"
    /\ ctIn \in CreateInputs
    /\ ctOut = [t |-> NilPtr, err |-> "pending"]

CallCreateTask ==
    /\ ctOut.err = "pending"
    /\ LET o == CreateTask(ctIn, Db, adminUsers, adminGroups)
       IN  /\ ctOut' = [t |-> o.t, err |-> o.err]
           /\ tasks' = o.db.tasks
           /\ comments' = o.db.comments
           /\ resolutions' = o.db.resolutions
           /\ notices' = o.db.notices
           /\ dbCalls' = o.db.calls
    /\ UNCHANGED ctIn
    /\ UNCHANGED CreateOthers

NextCreate == CallCreateTask

SpecCreate == InitCreate /\ [][NextCreate]_vars

-----------------------------------------------------------------------------
(* Claims about CreateTask *)

\* the claim C4 as the specification states it: a call of CreateTask that
\* returns the should-be-auto-runnable error or the delay error has created no
\* task and no comment
C4_RejectedBeforeStateChange ==
    ctOut.err \in {ErrShouldBeAutoRunnable, ErrDelay} =>
        tasks = <<>> /\ comments = <<>>

\* the call returned a task and no error, has created a resolution of that
\* task, and the returned task's Resolution references it
C5_ResolutionCreated ==
    /\ ctOut.err = "nil"
    /\ ~ctOut.t.isNil
    /\ ~ctOut.t.Resolution.isNil
    /\ \E i \in 1..Len(resolutions) :
          /\ resolutions[i].PublicID = ctOut.t.Resolution.id
          /\ resolutions[i].TaskID = ctOut.t.PublicID

C5_CallerMayResolve ==
    \/ ctIn.ctx.id \in adminUsers
    \/ ctIn.ctx.groups \cap adminGroups # {}
    \/ ctIn.tt.AllowAllResolverUsernames
    \/ ctIn.ctx.id \in ctIn.tt.AllowedResolverUsernames \cup ctIn.resolverUsernames
    \/ ctIn.ctx.groups \cap (ctIn.tt.AllowedResolverGroups \cup ctIn.resolverGroups) # {}

C15_BlockedTemplateRejected ==
    (ctOut.err # "pending" /\ ctIn.tt.Blocked) =>
        /\ ctOut.err = ErrTemplateBlocked
        /\ ctOut.t.isNil
        /\ dbCalls = <<>>
        /\ tasks = <<>> /\ comments = <<>> /\ resolutions = <<>> /\ notices = <<>>

\* CreateTask has returned for a blocked, auto-runnable template, a caller who
\* is an admin, a comment and a database that refuses task.Create
C15_Witness ==
    /\ ctOut.err = ErrTemplateBlocked
    /\ ctIn.tt.Blocked /\ ctIn.tt.AutoRunnable
    /\ ctIn.comment # ""
    /\ ctIn.fail = "task.Create"
    /\ ctIn.ctx.id \in adminUsers

\* the number of calls of that name the call of CreateTask has made
CallsMade(call) == Cardinality({ i \in 1..Len(dbCalls) : dbCalls[i] = call })

-----------------------------------------------------------------------------
(* pkg/taskutils: ShouldResumeParentTask *)

\* the states of a task and of a resolution
TaskStates == {"TODO", "BLOCKED", "RUNNING", "WAITING", "DONE", "CANCELLED", "WONTFIX"}
ResolutionStates ==
    {"TODO", "RUNNING", "WAITING", "PAUSED", "CANCELLED", "CRASHED", "DONE", "ERROR",
     "BLOCKED_BADREQUEST", "BLOCKED_FATAL", "BLOCKED_MAXRETRIES", "TO_AUTORUN",
     "RETRY_NOW"}

\* constants.SubtaskTagParentTaskID
SubtaskTagParentTaskID == "_utask_parent_task_id"

\* the first switch: only a task in a final state may wake its parent
IsFinalState(state) == state \in {"DONE", "WONTFIX", "CANCELLED"}

\* the look-up of the parent's id in the tags of the task: ok is FALSE for a nil
\* map and for a map without the tag
ParentTaskIDOf(t) ==
    IF t.Tags.isNil THEN [ok |-> FALSE, id |-> 0]
    ELSE IF SubtaskTagParentTaskID \notin DOMAIN t.Tags.m THEN [ok |-> FALSE, id |-> 0]
    ELSE [ok |-> TRUE, id |-> t.Tags.m[SubtaskTagParentTaskID]]

\* batchutils.RunningTasks: the number of tasks of the batch that are in no
\* final state
RunningTasks(db, batchID) ==
    Cardinality({ i \in 1..Len(db) :
        /\ ~db[i].BatchID.isNil
        /\ db[i].BatchID.id = batchID
        /\ ~IsFinalState(db[i].State) })

\* the test on the count, narrowed to never hold the parent back
SiblingsRunningIgnored(running) == FALSE

\* the test on the count of running tasks of the batch
SiblingsRunning(running) == running # 0

\* task.LoadFromPublicID and resolution.LoadFromPublicID: the row of that id,
\* or an error when there is none or the database fails
LoadFromPublicID(table, id, fail) ==
    IF fail \/ id \notin 1..Len(table) THEN [row |-> NilPtr, err |-> ErrDb]
    ELSE [row |-> table[id], err |-> "nil"]

\* the switch on the parent's state, widened to the parents in TODO
ParentMayResumeOrTodo(parentTask) ==
    parentTask.State \in {"BLOCKED", "RUNNING", "WAITING", "TODO"}

\* the switch on the parent's state
ParentMayResume(parentTask) == parentTask.State \in {"BLOCKED", "RUNNING", "WAITING"}

\* the switch on the resolution's state, narrowed to the crashed resolutions
ResolutionHeldCrashedOnly(r) == r.State \in {"CRASHED"}

\* the switch on the resolution's state
ResolutionHeld(r) == r.State \in {"CRASHED", "PAUSED"}

\* a call of ShouldResumeParentTask that has not started
NoResume ==
    [pc |-> "idle", t |-> NilPtr, running |-> -1, parentTask |-> NilPtr, r |-> NilPtr,
     ret |-> NilPtr, err |-> "nil"]

\* return (ret, err)
ResumeReturn(f, ret, err) == [f EXCEPT !.pc = "returned", !.ret = ret, !.err = err]

\* ShouldResumeParentTask up to its first access to the database: the checks
\* on the task it was given
ResumeEnter(t) ==
    LET f == [NoResume EXCEPT !.t = t]
    IN  IF ~IsFinalState(t.State) THEN ResumeReturn(f, NilPtr, "nil")
        ELSE IF ~ParentTaskIDOf(t).ok THEN ResumeReturn(f, NilPtr, "nil")
        ELSE IF ~t.BatchID.isNil THEN [f EXCEPT !.pc = "batch"]
        ELSE [f EXCEPT !.pc = "parent"]

\* the count of the running tasks of the batch, the finished task counted too
ResumeCountRunningSelfCounted(f, db, fail) ==
    LET running == RunningTasks(db, f.t.BatchID.id) + 1
    IN  IF fail THEN ResumeReturn(f, NilPtr, ErrDb)
        ELSE ResumeReturn([f EXCEPT !.running = running], NilPtr, "nil")

\* the count of the running tasks of the batch
ResumeCountRunning(f, db, fail) ==
    LET running == RunningTasks(db, f.t.BatchID.id)
    IN  IF fail THEN ResumeReturn(f, NilPtr, ErrDb)
        ELSE IF SiblingsRunning(running)
        THEN ResumeReturn([f EXCEPT !.running = running], NilPtr, "nil")
        ELSE [f EXCEPT !.running = running, !.pc = "parent"]

\* the load of the parent task
ResumeLoadParent(f, db, fail) ==
    LET l == LoadFromPublicID(db, ParentTaskIDOf(f.t).id, fail)
        g == [f EXCEPT !.parentTask = l.row]
    IN  IF l.err # "nil" THEN ResumeReturn(f, NilPtr, l.err)
        ELSE IF ~ParentMayResume(l.row) THEN ResumeReturn(g, NilPtr, "nil")
        ELSE IF l.row.Resolution.isNil THEN ResumeReturn(g, NilPtr, "nil")
        ELSE [g EXCEPT !.pc = "resolution"]

\* the load of the parent's resolution
ResumeLoadResolution(f, rdb, fail) ==
    LET l == LoadFromPublicID(rdb, f.parentTask.Resolution.id, fail)
        g == [f EXCEPT !.r = l.row]
    IN  IF l.err # "nil" THEN ResumeReturn(f, NilPtr, l.err)
        ELSE IF ResolutionHeld(l.row) THEN ResumeReturn(g, NilPtr, "nil")
        ELSE ResumeReturn(g, f.parentTask, "nil")

-----------------------------------------------------------------------------
(* Specification SpecResume: a parent task and two subtasks; the subtasks
   finish, and ShouldResumeParentTask is called for them, in any order *)

ParentID == 1
Children == {2, 3}
BatchName == "batch"

ResumeTask(id, state, resolution, batch, tags) ==
    [isNil |-> FALSE, PublicID |-> id, State |-> state, Resolution |-> resolution,
     BatchID |-> batch, Tags |-> tags]

Ref(id) == [isNil |-> FALSE, id |-> id]
TagMap(m) == [isNil |-> FALSE, m |-> m]
ParentTag(id) == TagMap([k \in {SubtaskTagParentTaskID} |-> id])

\* the parent and its resolution: a parent in any state with a running
\* resolution, a blocked parent with a resolution in any state, and a parent
\* without resolution
ParentSetups ==
    { [state |-> st, resolution |-> Ref(1), rstate |-> "RUNNING"] : st \in TaskStates }
    \cup { [state |-> "BLOCKED", resolution |-> Ref(1), rstate |-> rs] : rs \in ResolutionStates }
    \cup { [state |-> st, resolution |-> NilPtr, rstate |-> "TODO"] : st \in {"BLOCKED", "WAITING"} }

\* the first subtask: in the batch or in none, tagged with the parent, with a
\* task that does not exist, with other tags or with none
ChildSetups ==
    { [batch |-> b, tags |-> ParentTag(ParentID)] : b \in {NilPtr, Ref(BatchName)} }
    \cup { [batch |-> Ref(BatchName), tags |-> tg] :
             tg \in {NilPtr, TagMap(<<>>), ParentTag(9)} }

InitResume ==
    /\ InitValidateIdle
    /\ InitNotifyIdle
    /\ InitAuthIdle
    /\ InitApiIdle
    /\ InitRunnerIdle
    /\ InitCreateIdle
    /\ InitSendIdle
    /\ InitServeIdle
    /\ comments = <<>>
    /\ notices = <<>>
    /\ dbCalls = <<>>
    /\ \E p \in ParentSetups, c \in ChildSetups :
          /\ tasks = << ResumeTask(ParentID, p.state, p.resolution, NilPtr, NilPtr),
                        ResumeTask(2, "RUNNING", NilPtr, c.batch, c.tags),
                        ResumeTask(3, "RUNNING", NilPtr, Ref(BatchName), ParentTag(ParentID)) >>
          /\ resolutions = << [isNil |-> FALSE, PublicID |-> 1, TaskID |-> ParentID,
                               ResolverUsername |-> "alice", State |-> p.rstate,
                               DelayUntil |-> NilPtr] >>
    /\ resume = [c \in Children |-> NoResume]

\* the engine stores the final state of a subtask
Finish(c, state) ==
    /\ tasks[c].State = "RUNNING"
    /\ tasks' = [tasks EXCEPT ![c].State = state]
    /\ UNCHANGED <<resolutions, resume>>
    /\ UNCHANGED ResumeOthers

\* the engine calls ShouldResumeParentTask for a subtask it has just handled
CallShouldResume(c) ==
    /\ resume[c].pc \in {"idle", "returned"}
    /\ resume' = [resume EXCEPT ![c] = ResumeEnter(tasks[c])]
    /\ UNCHANGED <<tasks, resolutions>>
    /\ UNCHANGED ResumeOthers

StepCountRunning(c, fail) ==
    /\ resume[c].pc = "batch"
    /\ resume' = [resume EXCEPT ![c] = ResumeCountRunning(@, tasks, fail)]
    /\ UNCHANGED <<tasks, resolutions>>
    /\ UNCHANGED ResumeOthers

StepLoadParent(c, fail) ==
    /\ resume[c].pc = "parent"
    /\ resume' = [resume EXCEPT ![c] = ResumeLoadParent(@, tasks, fail)]
    /\ UNCHANGED <<tasks, resolutions>>
    /\ UNCHANGED ResumeOthers

StepLoadResolution(c, fail) ==
    /\ resume[c].pc = "resolution"
    /\ resume' = [resume EXCEPT ![c] = ResumeLoadResolution(@, resolutions, fail)]
    /\ UNCHANGED <<tasks, resolutions>>
    /\ UNCHANGED ResumeOthers

NextResume ==
    \/ \E c \in Children, state \in {"DONE", "WONTFIX", "CANCELLED"} : Finish(c, state)
    \/ \E c \in Children : CallShouldResume(c)
    \/ \E c \in Children, fail \in BOOLEAN : StepCountRunning(c, fail)
    \/ \E c \in Children, fail \in BOOLEAN : StepLoadParent(c, fail)
    \/ \E c \in Children, fail \in BOOLEAN : StepLoadResolution(c, fail)

SpecResume == InitResume /\ [][NextResume]_vars

-----------------------------------------------------------------------------
(* Claims about ShouldResumeParentTask *)

\* C2: a call of ShouldResumeParentTask for a finished task of a batch returns
\* a parent task only if the count of running tasks of the batch it read is 0,
\* and then no task of the batch is running; a call that counted a running
\* task returned (nil, nil)
C2_ParentOnlyWhenBatchDone ==
    \A c \in Children :
        LET f == resume[c]
        IN  (f.pc = "returned" /\ IsFinalState(f.t.State) /\ ~f.t.BatchID.isNil) =>
                /\ ~f.ret.isNil =>
                      /\ f.running = 0
                      /\ RunningTasks(tasks, f.t.BatchID.id) = 0
                /\ f.running > 0 => f.ret.isNil /\ f.err = "nil"

\* both subtasks of the batch have finished and the call for one of them
\* returned the parent; the call for the other one, made while its sibling
\* was running, returned nothing
C2_Witness ==
    /\ resume[2].pc = "returned" /\ resume[3].pc = "returned"
    /\ ~resume[2].t.BatchID.isNil
    /\ ~resume[2].ret.isNil /\ resume[2].running = 0
    /\ resume[3].ret.isNil /\ resume[3].running = 1 /\ IsFinalState(resume[3].t.State)

\* C3: a call of ShouldResumeParentTask that returns a parent task has loaded
\* the resolution of that parent, and the state it loaded is neither PAUSED nor
\* CRASHED
C3_NeverResumesPaused ==
    \A c \in Children :
        LET f == resume[c]
        IN  (f.pc = "returned" /\ ~f.ret.isNil) =>
                /\ ~f.r.isNil
                /\ f.ret.Resolution = Ref(f.r.PublicID)
                /\ f.r.State \notin {"PAUSED", "CRASHED"}

\* a call for a finished subtask whose siblings are done loaded a paused
\* resolution of a blocked parent, and returned (nil, nil)
C3_Witness ==
    \E c \in Children :
        /\ resume[c].pc = "returned"
        /\ ~resume[c].r.isNil /\ resume[c].r.State = "PAUSED"
        /\ resume[c].parentTask.State = "BLOCKED"
        /\ resume[c].ret.isNil /\ resume[c].err = "nil"

\* both subtasks belong to the batch and carry the tag of the parent
C17_Siblings ==
    \A c \in Children :
        /\ tasks[c].BatchID = Ref(BatchName)
        /\ tasks[c].Tags = ParentTag(ParentID)

\* the parent is in a state to be resumed and its resolution is neither paused
\* nor crashed
C17_ParentResumable ==
    /\ ParentMayResume(tasks[ParentID])
    /\ ~tasks[ParentID].Resolution.isNil
    /\ ~ResolutionHeld(resolutions[1])

\* the call of ShouldResumeParentTask for each subtask was made after the
\* subtask's final state was stored, and has returned
C17_BothCalledWhenDone ==
    \A c \in Children :
        resume[c].pc = "returned" /\ IsFinalState(resume[c].t.State)

\* at least one of the two calls returned the parent; a call that counted its
\* sibling as running returned nothing, and then the call for the sibling
\* returned the parent
C17_OneCallResumes ==
    /\ \E c \in Children : ~resume[c].ret.isNil
    /\ \A c \in Children, d \in Children :
          (c # d /\ resume[c].running > 0) =>
              resume[c].ret.isNil /\ ~resume[d].ret.isNil

C18_ResumeConditions ==
    \A c \in Children :
        LET f == resume[c]
        IN  f.pc = "returned" =>
                /\ ~f.ret.isNil =>
                      /\ f.err = "nil"
                      /\ f.t.State \in {"DONE", "WONTFIX", "CANCELLED"}
                      /\ ~f.t.Tags.isNil
                      /\ SubtaskTagParentTaskID \in DOMAIN f.t.Tags.m
                      /\ f.ret = f.parentTask
                      /\ f.ret.PublicID = f.t.Tags.m[SubtaskTagParentTaskID]
                      /\ f.ret.State \in {"BLOCKED", "RUNNING", "WAITING"}
                      /\ ~f.ret.Resolution.isNil
                /\ f.err # "nil" => f.ret.isNil
                /\ (~f.parentTask.isNil /\ f.r.isNil /\ f.err = "nil") =>
                      /\ f.ret.isNil
                      /\ \/ f.parentTask.State \in {"TODO", "DONE", "CANCELLED", "WONTFIX"}
                         \/ f.parentTask.Resolution.isNil

\* a call for a finished subtask loaded a parent in TODO and returned
\* (nil, nil), and the call for the other subtask failed on a load
C18_Witness ==
    \E c \in Children, d \in Children :
        /\ resume[c].pc = "returned"
        /\ IsFinalState(resume[c].t.State)
        /\ ~resume[c].parentTask.isNil /\ resume[c].parentTask.State = "TODO"
        /\ resume[c].ret.isNil /\ resume[c].err = "nil"
        /\ resume[d].pc = "returned" /\ resume[d].err # "nil" /\ resume[d].ret.isNil

-----------------------------------------------------------------------------
(* pkg/notify: ListSendersNames, ListActions and Send *)

\* a pattern of a per-template strategy matches the template's name
TemplateMatches(pattern, name) == <<pattern, name>> \in {<<"hello.*", "hello-world">>}

\* the strategy of a backend for a message: the default of the message's
\* action, overridden by the first per-template strategy of that action with a
\* pattern that matches the message's template
EffectiveStrategy(m, b) ==
    LET tns == b.templateNotificationStrategies
        strats == IF m.NotificationType \in DOMAIN tns THEN tns[m.NotificationType] ELSE <<>>
        hits == { i \in 1..Len(strats) :
                    \E pat \in strats[i].Templates : TemplateMatches(pat, m.TemplateName) }
    IN  IF hits # {}
        THEN strats[CHOOSE i \in hits : \A j \in hits : i <= j].NotificationStrategy
        ELSE b.defaultNotificationStrategy.kv[m.NotificationType]

\* checkIfDeliverMessage: whether the backend's strategy lets the message through
checkIfDeliverMessage(m, b) ==
    LET strategy == EffectiveStrategy(m, b)
    IN  CASE strategy = NotificationStrategyAlways -> TRUE
          [] strategy = NotificationStrategySilent -> FALSE
          [] strategy = NotificationStrategyFailureOnly -> m.Failed
          [] strategy = NotificationStrategyFailureOrDone -> m.Failed \/ m.Done
          [] OTHER -> TRUE

\* ListSendersNames: the names of the registered senders (in no fixed order)
ListSendersNames(s) == DOMAIN s

\* ListActions
ListActions(a) == a

\* Send, up to its loops: the names the loops reach, in order. With an empty
\* NotifyBackends the loop ranges over the senders in the order the map yields
\* them; otherwise the inner loop reaches, for each listed name in turn, the
\* sender of that name if there is one
SendPlanIgnoresDisabled(s, params, order) ==
    IF Len(params.NotifyBackends) = 0 THEN order
    ELSE SelectSeq(params.NotifyBackends, LAMBDA n : n \in DOMAIN s)

SendPlan(s, params, order) ==
    IF params.Disabled THEN <<>>
    ELSE IF Len(params.NotifyBackends) = 0 THEN order
    ELSE SelectSeq(params.NotifyBackends, LAMBDA n : n \in DOMAIN s)

\* go s.sender.Send(m, name): one more goroutine
Spawn(g, m, name) == Append(g, [name |-> name, m |-> m, state |-> "started"])

\* one iteration of the loop body, which also drops from the registry a sender
\* that does not deliver
SendIterationPrunes(f, s, g) ==
    LET name == Head(f.todo)
    IN  [call |-> [f EXCEPT !.todo = Tail(@)],
         gos |-> IF checkIfDeliverMessage(f.m, s[name]) THEN Spawn(g, f.m, name) ELSE g,
         senders |-> IF checkIfDeliverMessage(f.m, s[name]) THEN s
                     ELSE [n \in DOMAIN s \ {name} |-> s[n]]]

\* one iteration of the loop body: the delivery check on a copy of the
\* backend, and the go statement
SendIteration(f, s, g) ==
    LET name == Head(f.todo)
    IN  [call |-> [f EXCEPT !.todo = Tail(@)],
         gos |-> IF checkIfDeliverMessage(f.m, s[name]) THEN Spawn(g, f.m, name) ELSE g,
         senders |-> s]

\* Send returns only when the goroutines it started have ended
SendMayReturnWhenSent(f, g) ==
    f.todo = <<>> /\ \A i \in 1..Len(g) : g[i].state \in {"done", "failed"}

\* Send returns when its loops are over
SendMayReturn(f, g) == f.todo = <<>>

-----------------------------------------------------------------------------
(* Specification SpecSend: the senders are registered at boot, then messages
   are sent and the registries are listed; the goroutines of a call run on
   their own *)

\* the most names of params.NotifyBackends
MaxBackends == 2

SenderNames == {"ops", "chat"}

\* the normalized default strategies a backend is registered with, given its
\* strategy for state updates
SendDefaults(strategy) ==
    MakeMap((TaskStateUpdateKey :> strategy)
            @@ [a \in {TaskValidationKey, TaskStepUpdateKey} |-> NotificationStrategyAlways])

\* the strategies of a registered backend: a default for state updates, or a
\* default of always with templates hello.* silenced
SenderStrategies ==
    { [dns |-> SendDefaults(x), tns |-> <<>>] :
        x \in {NotificationStrategyAlways, NotificationStrategyFailureOnly} }
    \cup { [dns |-> SendDefaults(NotificationStrategyAlways),
            tns |-> (TaskStateUpdateKey :> <<TemplateNotificationStrategy(NotificationStrategySilent)>>)] }

Messages ==
    { [NotificationType |-> TaskStateUpdateKey, TemplateName |-> "hello-world",
       Failed |-> FALSE, Done |-> TRUE],
      [NotificationType |-> TaskStateUpdateKey, TemplateName |-> "deploy",
       Failed |-> TRUE, Done |-> FALSE] }

\* utask.NotifyActionsParameters: the listed names may name no sender
SendParams ==
    [Disabled : BOOLEAN,
     NotifyBackends : UNION { [1..k -> SenderNames \cup {"pager"}] : k \in 0..MaxBackends }]

InitSend ==
    /\ InitValidateIdle
    /\ InitNotifyIdle
    /\ InitAuthIdle
    /\ InitApiIdle
    /\ InitRunnerIdle
    /\ InitDbIdle
    /\ InitCreateIdle
    /\ InitResumeIdle
    /\ InitSendIdle
    /\ InitServeIdle

\* boot: a sender is registered (again, possibly)
BootRegisterSender(name, st) ==
    /\ sendCall.pc = "idle"
    /\ senders' = RegisterSender(senders, name, name, st.dns, st.tns)
    /\ lastOp' = [op |-> "RegisterSender", ret |-> "none"]
    /\ UNCHANGED <<actions, sendCall, gos>>
    /\ UNCHANGED SendOthers

\* boot: the notify actions are registered
BootRegisterActions(na) ==
    /\ sendCall.pc = "idle"
    /\ actions' = RegisterActions(na)
    /\ lastOp' = [op |-> "RegisterActions", ret |-> "none"]
    /\ UNCHANGED <<senders, sendCall, gos>>
    /\ UNCHANGED SendOthers

CallListSendersNames ==
    /\ lastOp' = [op |-> "ListSendersNames", ret |-> ListSendersNames(senders)]
    /\ UNCHANGED <<senders, actions, sendCall, gos>>
    /\ UNCHANGED SendOthers

CallListActions ==
    /\ lastOp' = [op |-> "ListActions", ret |-> ListActions(actions)]
    /\ UNCHANGED <<senders, actions, sendCall, gos>>
    /\ UNCHANGED SendOthers

\* Send is called: the goroutines of the call before are no longer followed
CallSend(m, params, order) ==
    /\ sendCall.pc \in {"idle", "returned"}
    /\ sendCall' = [pc |-> "loop", m |-> m, params |-> params,
                    todo |-> SendPlan(senders, params, order)]
    /\ gos' = <<>>
    /\ lastOp' = [op |-> "Send", ret |-> "none"]
    /\ UNCHANGED <<senders, actions>>
    /\ UNCHANGED SendOthers

SendLoop ==
    /\ sendCall.pc = "loop"
    /\ sendCall.todo # <<>>
    /\ LET o == SendIteration(sendCall, senders, gos)
       IN  /\ sendCall' = o.call
           /\ gos' = o.gos
           /\ senders' = o.senders
    /\ lastOp' = [op |-> "Send", ret |-> "none"]
    /\ UNCHANGED actions
    /\ UNCHANGED SendOthers

SendReturn ==
    /\ sendCall.pc = "loop"
    /\ SendMayReturn(sendCall, gos)
    /\ sendCall' = [sendCall EXCEPT !.pc = "returned"]
    /\ lastOp' = [op |-> "Send", ret |-> "none"]
    /\ UNCHANGED <<senders, actions, gos>>
    /\ UNCHANGED SendOthers

\* a sender's goroutine blocks, fails or ends; a blocked one may stay so
SenderRuns(i, state) ==
    /\ i \in 1..Len(gos)
    /\ gos[i].state \in {"started", "blocked"}
    /\ gos[i].state # state
    /\ gos' = [gos EXCEPT ![i].state = state]
    /\ lastOp' = [op |-> "sender.Send", ret |-> "none"]
    /\ UNCHANGED <<senders, actions, sendCall>>
    /\ UNCHANGED SendOthers

NextSend ==
    \/ \E name \in SenderNames, st \in SenderStrategies : BootRegisterSender(name, st)
    \/ \E na \in {"actions_a"} : BootRegisterActions(na)
    \/ CallListSendersNames
    \/ CallListActions
    \/ \E m \in Messages, params \in SendParams, order \in Orders(DOMAIN senders) :
          CallSend(m, params, order)
    \/ SendLoop
    \/ SendReturn
    \/ \E i \in 1..MaxBackends, state \in {"blocked", "failed", "done"} : SenderRuns(i, state)

SpecSend == InitSend /\ [][NextSend]_vars

\* the goroutine that runs Send is scheduled; the senders' goroutines may block
\* for ever
SpecSendLive == SpecSend /\ WF_vars(SendLoop) /\ WF_vars(SendReturn)

-----------------------------------------------------------------------------
(* Claims about pkg/notify *)

\* C11: a step that changes the registered senders, a backend's strategies
\* or the registered notify actions is a step of RegisterSender or of
\* RegisterActions: Send, the senders it starts, ListSendersNames and
\* ListActions leave them as they are
C11_RegistriesImmutable ==
    [][ (senders' # senders \/ actions' # actions) =>
            lastOp'.op \in {"RegisterSender", "RegisterActions"} ]_vars

\* both senders were registered, a message was sent to both, and the senders
\* were listed after Send returned
C11_Witness ==
    /\ lastOp.op = "ListSendersNames"
    /\ lastOp.ret = SenderNames
    /\ DOMAIN senders = SenderNames
    /\ sendCall.pc = "returned"
    /\ Len(gos) = 2

\* the number of goroutines the last call of Send has started for that name
GoroutinesFor(name) == Cardinality({ i \in 1..Len(gos) : gos[i].name = name })

\* the number of times params.NotifyBackends lists that name
TimesListed(name) ==
    Cardinality({ i \in 1..Len(sendCall.params.NotifyBackends) :
                    sendCall.params.NotifyBackends[i] = name })

\* the number of invocations of that sender the call of Send is to make: none
\* when params.Disabled is set, when no sender of that name is registered or
\* when the delivery check fails; else one with an empty NotifyBackends, and
\* one for each time the name is listed otherwise
Invocations(name) ==
    IF sendCall.params.Disabled THEN 0
    ELSE IF name \notin DOMAIN senders THEN 0
    ELSE IF ~checkIfDeliverMessage(sendCall.m, senders[name]) THEN 0
    ELSE IF Len(sendCall.params.NotifyBackends) = 0 THEN 1
    ELSE TimesListed(name)

\* C19: when Send has returned, it has started no goroutine if
\* params.Disabled is set; with an empty NotifyBackends, one for every
\* registered sender that passes the delivery check; with a non-empty one,
\* one per listing of a registered sender that passes the check, and none for
\* a listed name that is not registered; each goroutine got the message sent
C19_SenderSelection ==
    sendCall.pc = "returned" =>
        /\ \A name \in SenderNames \cup {"pager"} : GoroutinesFor(name) = Invocations(name)
        /\ \A i \in 1..Len(gos) : gos[i].m = sendCall.m

\* a message was sent to pager, which is not registered, and to ops, which is:
\* one goroutine, for ops, although chat would deliver the message too
C19_Witness ==
    /\ sendCall.pc = "returned"
    /\ sendCall.params.NotifyBackends = <<"pager", "ops">>
    /\ DOMAIN senders = SenderNames
    /\ checkIfDeliverMessage(sendCall.m, senders["chat"])
    /\ Len(gos) = 1 /\ gos[1].name = "ops"

\* the goroutines started so far are among the invocations of the call, being
\* all of them once Send has returned, whatever became of each
C12_OneGoroutineEach ==
    sendCall.pc # "idle" =>
        \A name \in SenderNames \cup {"pager"} :
            /\ GoroutinesFor(name) <= Invocations(name)
            /\ sendCall.pc = "returned" => GoroutinesFor(name) = Invocations(name)

\* C12: Send starts one goroutine for each invocation it is to make, no more
\* when one of them has failed and no fewer when one has failed or blocks, and
\* a call of Send returns whether or not the goroutines it started have ended
C12_ConcurrentNoRetry ==
    /\ []C12_OneGoroutineEach
    /\ (sendCall.pc = "loop") ~> (sendCall.pc = "returned")

\* Send has returned after it started two senders: the first has failed and
\* the second blocks
C12_Witness ==
    /\ sendCall.pc = "returned"
    /\ Len(gos) = 2
    /\ gos[1].state = "failed"
    /\ gos[2].state = "blocked"

-----------------------------------------------------------------------------
(* api: collectMetrics and ListenAndServe *)

\* the most refreshes of the gauge the model follows
MaxRefreshes == 3

\* updateMetrics: one refresh of the gauge; an error of the query is logged and
\* leaves the gauge as it is
updateMetrics(c, err) == [c EXCEPT !.refreshes = @ + 1, !.warned = err]

\* collectMetrics without its first refresh
collectMetricsTickOnly(c, dbpErr, queryErr, own) ==
    IF dbpErr THEN [c EXCEPT !.pc = "failed", !.warned = TRUE, !.own = own]
    ELSE [c EXCEPT !.pc = "select", !.ticker = "running", !.own = own]

\* collectMetrics, up to the start of its goroutine: without database provider
\* it logs a warning and returns; else it creates the ticker, refreshes once (the
\* query may fail) and starts the goroutine
collectMetrics(c, dbpErr, queryErr, own) ==
    IF dbpErr THEN [c EXCEPT !.pc = "failed", !.warned = TRUE, !.own = own]
    ELSE updateMetrics([c EXCEPT !.pc = "select", !.ticker = "running", !.own = own],
                       queryErr)

\* the goroutine's case <-tick.C
CollectorTick(c, queryErr) == updateMetrics([c EXCEPT !.tick = FALSE], queryErr)

\* the goroutine's case <-ctx.Done(): tick.Stop() and return
CollectorDone(c) == [c EXCEPT !.ticker = "stopped", !.pc = "stopped"]

\* s.build(ctx): the first call builds the handler and starts the collector on
\* ctx; a later call does nothing
build(s, c, dbpErr, queryErr, own) ==
    IF s.built THEN [srv |-> s, col |-> c]
    ELSE [srv |-> [s EXCEPT !.built = TRUE],
          col |-> collectMetrics(c, dbpErr, queryErr, own)]

\* the signal goroutine starts the shutdown of the server without cancelling
\* the root context
OnSignalShutdownOnly(s, c) ==
    [srv |-> [s EXCEPT !.gpc = "cancelled"], col |-> c]

\* the signal goroutine, after it received the signal: cancel(), which ends
\* the context the collector watches if it was started on the root context
OnSignal(s, c) ==
    [srv |-> [s EXCEPT !.gpc = "cancelled", !.cancelled = TRUE],
     col |-> IF c.own THEN [c EXCEPT !.done = TRUE] ELSE c]

\* srv.Shutdown: a server that listens, or is about to, stops with
\* ErrServerClosed
Shutdown(s) ==
    [s EXCEPT !.gpc = "shutdown",
              !.http = IF @ \in {"starting", "listening"} THEN "closed" ELSE @]

\* the return of ListenAndServe once srv.ListenAndServe has returned: the
\* server's error unless it is nil or ErrServerClosed
ListenAndServeReturn(s) ==
    [s EXCEPT !.pc = "returned", !.ret = IF s.http = "failed" THEN "error" ELSE "nil"]

-----------------------------------------------------------------------------
(* Specification SpecServe: the server is started, possibly after its handler
   was built by Handler; signals arrive, the HTTP server may fail, the ticker
   ticks *)

InitServe ==
    /\ InitValidateIdle
    /\ InitNotifyIdle
    /\ InitAuthIdle
    /\ InitApiIdle
    /\ InitRunnerIdle
    /\ InitDbIdle
    /\ InitCreateIdle
    /\ InitResumeIdle
    /\ InitSendIdle
    /\ InitServeIdle

\* s.Handler(ctx) is called before ListenAndServe, with a context of the caller
CallHandler(dbpErr, queryErr) ==
    /\ srv.pc = "init" /\ ~srv.built
    /\ LET o == build(srv, col, dbpErr, queryErr, FALSE)
       IN  srv' = o.srv /\ col' = o.col
    /\ UNCHANGED ServeOthers

\* the caller of Handler cancels its context
CancelHandlerContext ==
    /\ ~srv.exited
    /\ col.pc # "none" /\ ~col.own /\ ~col.done
    /\ col' = [col EXCEPT !.done = TRUE]
    /\ UNCHANGED srv
    /\ UNCHANGED ServeOthers

\* ListenAndServe, up to its call of srv.ListenAndServe: the root context, the
\* handler, the signal channel and the goroutine that waits on it
ListenAndServe(dbpErr, queryErr) ==
    /\ srv.pc = "init"
    /\ LET o == build(srv, col, dbpErr, queryErr, TRUE)
       IN  /\ srv' = [o.srv EXCEPT !.pc = "serving", !.gpc = "waiting", !.http = "starting"]
           /\ col' = o.col
    /\ UNCHANGED ServeOthers

ServerListens ==
    /\ ~srv.exited
    /\ srv.http = "starting"
    /\ srv' = [srv EXCEPT !.http = "listening"]
    /\ UNCHANGED col
    /\ UNCHANGED ServeOthers

\* the HTTP server stops with an error of its own
ServerFails ==
    /\ ~srv.exited
    /\ srv.http \in {"starting", "listening"}
    /\ srv' = [srv EXCEPT !.http = "failed"]
    /\ UNCHANGED col
    /\ UNCHANGED ServeOthers

\* SIGINT or SIGTERM is delivered to the channel, which holds one signal
Signal ==
    /\ ~srv.exited
    /\ srv.gpc = "waiting" /\ ~srv.sig
    /\ srv' = [srv EXCEPT !.sig = TRUE]
    /\ UNCHANGED col
    /\ UNCHANGED ServeOthers

GoReceive ==
    /\ ~srv.exited
    /\ srv.gpc = "waiting" /\ srv.sig
    /\ srv' = [srv EXCEPT !.sig = FALSE, !.gpc = "signalled"]
    /\ UNCHANGED col
    /\ UNCHANGED ServeOthers

GoCancel ==
    /\ ~srv.exited
    /\ srv.gpc = "signalled"
    /\ LET o == OnSignal(srv, col)
       IN  srv' = o.srv /\ col' = o.col
    /\ UNCHANGED ServeOthers

GoShutdown ==
    /\ ~srv.exited
    /\ srv.gpc = "cancelled"
    /\ srv' = Shutdown(srv)
    /\ UNCHANGED col
    /\ UNCHANGED ServeOthers

\* srv.Shutdown returns; on an error logrus.Fatal ends the process
GoShutdownReturns(err) ==
    /\ ~srv.exited
    /\ srv.gpc = "shutdown"
    /\ srv' = [srv EXCEPT !.gpc = IF err THEN "fatal" ELSE "done", !.exited = err]
    /\ UNCHANGED col
    /\ UNCHANGED ServeOthers

MainReturn ==
    /\ ~srv.exited
    /\ srv.pc = "serving"
    /\ srv.http \in {"closed", "failed"}
    /\ srv' = ListenAndServeReturn(srv)
    /\ UNCHANGED col
    /\ UNCHANGED ServeOthers

\* the ticker fires, every 5 seconds; its channel holds one tick
Tick ==
    /\ ~srv.exited
    /\ col.ticker = "running" /\ ~col.tick
    /\ col' = [col EXCEPT !.tick = TRUE]
    /\ UNCHANGED srv
    /\ UNCHANGED ServeOthers

\* the select of the goroutine takes a tick; it may do so when the context is
\* done too
CollectorTakesTick(queryErr) ==
    /\ ~srv.exited
    /\ col.pc = "select" /\ col.tick
    /\ col.refreshes < MaxRefreshes
    /\ col' = CollectorTick(col, queryErr)
    /\ UNCHANGED srv
    /\ UNCHANGED ServeOthers

CollectorTakesDone ==
    /\ ~srv.exited
    /\ col.pc = "select" /\ col.done
    /\ col' = CollectorDone(col)
    /\ UNCHANGED srv
    /\ UNCHANGED ServeOthers

NextServe ==
    \/ \E dbpErr \in BOOLEAN, queryErr \in BOOLEAN : CallHandler(dbpErr, queryErr)
    \/ CancelHandlerContext
    \/ \E dbpErr \in BOOLEAN, queryErr \in BOOLEAN : ListenAndServe(dbpErr, queryErr)
    \/ ServerListens
    \/ ServerFails
    \/ Signal
    \/ GoReceive
    \/ GoCancel
    \/ GoShutdown
    \/ \E err \in BOOLEAN : GoShutdownReturns(err)
    \/ MainReturn
    \/ Tick
    \/ \E queryErr \in BOOLEAN : CollectorTakesTick(queryErr)
    \/ CollectorTakesDone

SpecServe == InitServe /\ [][NextServe]_vars

\* the goroutines of the program are scheduled: the signal goroutine, the
\* caller of srv.ListenAndServe and the collector, whose select takes the done
\* case in the end when it stays ready
SpecServeLive ==
    /\ SpecServe
    /\ WF_vars(GoReceive) /\ WF_vars(GoCancel) /\ WF_vars(GoShutdown)
    /\ WF_vars(\E err \in BOOLEAN : GoShutdownReturns(err))
    /\ WF_vars(MainReturn)
    /\ WF_vars(CollectorTakesDone)

-----------------------------------------------------------------------------
(* Claims on collectMetrics and ListenAndServe *)

CollectorStarted == col.pc # "none"

CollectorRunning == col.pc = "select"

\* C13, as stated: collectMetrics refreshes the gauge once at once, every
\* started collector has therefore refreshed; once its context is cancelled no
\* further refresh happens, and the goroutine terminates
C13_RefreshUntilCancelled ==
    /\ [](CollectorStarted => col.refreshes >= 1)
    /\ [][col.done => col'.refreshes = col.refreshes]_vars
    /\ (col.done ~> (~CollectorRunning \/ srv.exited))

\* C13: a collector that got its database provider has refreshed once before
\* its goroutine runs, and each later refresh takes one tick of the running
\* ticker; one without database provider never refreshes and has no ticker;
\* the goroutine stops only on a cancelled context, with the ticker stopped,
\* and nothing of the collector changes after that; a goroutine whose context
\* is cancelled takes the done case in the end, unless the process exits
C13_RefreshUntilStopped ==
    /\ [](col.pc \in {"select", "stopped"} => col.refreshes >= 1 /\ col.ticker # "none")
    /\ [](col.pc = "failed" => col.refreshes = 0 /\ col.ticker = "none" /\ col.warned)
    /\ [](col.pc = "stopped" => col.done /\ col.ticker = "stopped")
    /\ [](col.pc = "select" => col.ticker = "running")
    /\ [][col.pc = "stopped" => col' = col]_vars
    /\ [][(col.pc # "none" /\ col'.refreshes # col.refreshes) => (col.pc = "select" /\ col.tick /\ ~col'.tick /\ col'.refreshes = col.refreshes + 1)]_vars
    /\ ((col.done /\ CollectorRunning) ~> (col.pc = "stopped" \/ srv.exited))

\* the collector refreshed at once, took two ticks and stopped on its
\* cancelled context
C13_Witness ==
    /\ col.pc = "stopped"
    /\ col.refreshes = 3
    /\ col.own

SignalReceived == srv.gpc \in {"signalled", "cancelled", "shutdown", "done", "fatal"}

ShutdownStarted == srv.gpc \in {"shutdown", "done", "fatal"}

ReturnedNil == srv.pc = "returned" /\ srv.ret = "nil"

\* the part of C20 on the order of the steps and on the returned value:
\* ListenAndServe returns only after the HTTP server stopped; it returns nil
\* only after a signal, the cancellation and the start of the shutdown; the
\* shutdown starts only after the cancellation of the root context; a non-nil
\* error is returned only for a server that stopped with an error of its own
C20_Order ==
    /\ [](srv.pc = "returned" => srv.http \in {"closed", "failed"})
    /\ [](ReturnedNil => ShutdownStarted /\ srv.http = "closed")
    /\ [](ShutdownStarted => srv.cancelled)
    /\ [](srv.cancelled => SignalReceived)
    /\ []((srv.pc = "returned" /\ srv.ret # "nil") => srv.http = "failed")
    /\ []((srv.cancelled /\ col.own) => col.done)

====
